---- MODULE Spec2Model ----
(***************************************************************************)
(* Model of ContextMenuService (src/app/src/Services/ContextMenuService.js) *)
(* of Wavebox: the binding of the context-menu listener to web contents,    *)
(* the construction of the menu template from its sections, the display /   *)
(* teardown of the menu and the click handlers of the menu items; and of    *)
(* the dispatch of actions to mailboxStore.                                 *)
(*                                                                          *)
(* JavaScript values are represented as follows:                            *)
(*   - an array is a sequence, an object is a record; a key whose value is  *)
(*     undefined is an absent key of the record;                            *)
(*   - the empty string is the falsy string;                                *)
(*   - a closure is a record naming the call it makes and the values it     *)
(*     captured.                                                            *)
(***************************************************************************)
EXTENDS Integers, Sequences, FiniteSets, TLC

VARIABLES
  isDestroyed,           \* [surface -> BOOLEAN], contents.isDestroyed()
  destroyedEmitted,      \* [surface -> BOOLEAN], the 'destroyed' event was emitted
  immediates,            \* the setImmediate queue: surfaces captured by the callbacks
  privConnected,         \* this[privConnected], the set of bound webContents ids
  contextMenuListeners,  \* [surface -> Nat], 'context-menu' listeners on the surface
  destroyedListeners,    \* [surface -> Nat], 'destroyed' listeners on the surface
  menus,                 \* the menus built by launchMenu, in launch order
  lastLaunch,            \* what launchMenu resolved in the step just taken, <<>> if it did not run
  lastClick,             \* the click of the step just taken and the calls it made, <<>> if none
  spellcheckerCalls,     \* number of calls into the spellchecker service
  runtimeQueries,        \* number of getRuntimeContextMenuData() calls
  createEvents,          \* number of creation events delivered by the app
  contextMenuEvents,     \* number of 'context-menu' events emitted
  args,                  \* inputs of the function under check (function specifications)
  result,                \* its result
  called,                \* whether it was applied
  store                  \* mailboxStore: its state, its dispatch in progress and its subscribers

serviceVars == <<isDestroyed, destroyedEmitted, immediates, privConnected,
                 contextMenuListeners, destroyedListeners, menus, lastLaunch,
                 lastClick, spellcheckerCalls, runtimeQueries, createEvents,
                 contextMenuEvents>>
fnVars == <<args, result, called>>
vars == <<isDestroyed, destroyedEmitted, immediates, privConnected,
          contextMenuListeners, destroyedListeners, menus, lastLaunch,
          lastClick, spellcheckerCalls, runtimeQueries, createEvents,
          contextMenuEvents, args, result, called, store>>

(***************************************************************************)
(* Bounds                                                                   *)
(***************************************************************************)
MaxSections == 3
MaxSectionLen == 2
MaxExtensions == 2
MaxContribs == 2
NumSurfaces == 2
MaxCreateEvents == 3
MaxContextMenuEvents == 2
MaxDispatches == 2
NumSubscribers == 2

(***************************************************************************)
(* JavaScript helpers                                                       *)
(***************************************************************************)
\* undefined where an array is expected: a value that is no sequence
Undefined == [i \in {0} |-> 0]

\* the elements of a sequence
Range(s) == {s[i] : i \in DOMAIN s}

\* sequences over S of length at most n
SeqUpTo(S, n) == UNION {[1..k -> S] : k \in 0..n}

\* Array.prototype.slice(0, -1)
SliceDropLast(a) == SubSeq(a, 1, Len(a) - 1)

\* Object.assign(target, source)
ObjectAssign(target, source) ==
  [k \in (DOMAIN target) \cup (DOMAIN source) |->
     IF k \in DOMAIN source THEN source[k] ELSE target[k]]

SeparatorItem == [type |-> "separator"]

IsSeparator(e) == "type" \in DOMAIN e /\ e.type = "separator"

(***************************************************************************)
(* convertSectionsToTemplate                                                *)
(***************************************************************************)
\* section && section.length
SectionTruthy(section) == section # Undefined /\ Len(section) > 0

\* the reduce of convertSectionsToTemplate, left to right
RECURSIVE ReduceSections(_, _)
ReduceSections(acc, sections) ==
  IF sections = <<>> THEN acc
  ELSE ReduceSections(
         IF SectionTruthy(Head(sections))
           THEN acc \o Head(sections) \o <<SeparatorItem>>
           ELSE acc,
         Tail(sections))

\* convertSectionsToTemplate without its trailing slice(0, -1)
convertSectionsToTemplate_NoSlice(sections) == ReduceSections(<<>>, sections)

convertSectionsToTemplate(sections) ==
  SliceDropLast(ReduceSections(<<>>, sections))

(***************************************************************************)
(* Specification of convertSectionsToTemplate alone                         *)
(***************************************************************************)
\* plain entries of a section, none of them a separator
PlainItems == {[label |-> "A"], [label |-> "B"]}

SectionInputs == {Undefined} \cup SeqUpTo(PlainItems, MaxSectionLen)

ServiceIdle ==
  /\ isDestroyed = <<>>
  /\ destroyedEmitted = <<>>
  /\ immediates = <<>>
  /\ privConnected = {}
  /\ contextMenuListeners = <<>>
  /\ destroyedListeners = <<>>
  /\ menus = <<>>
  /\ lastLaunch = <<>>
  /\ lastClick = <<>>
  /\ spellcheckerCalls = 0
  /\ runtimeQueries = 0
  /\ createEvents = 0
  /\ contextMenuEvents = 0

InitConvert ==
  /\ ServiceIdle
  /\ args \in SeqUpTo(SectionInputs, MaxSections)
  /\ result = <<>>
  /\ called = FALSE
  /\ store = <<>>

ConvertSections ==
  /\ ~called
  /\ result' = convertSectionsToTemplate(args)
  /\ called' = TRUE
  /\ UNCHANGED <<args, serviceVars, store>>

NextConvert == ConvertSections

SpecConvert == InitConvert /\ [][NextConvert]_vars

(***************************************************************************)
(* C1                                                                       *)
(***************************************************************************)
RECURSIVE FlattenSections(_)
FlattenSections(sections) ==
  IF sections = <<>> THEN <<>>
  ELSE (IF SectionTruthy(Head(sections)) THEN Head(sections) ELSE <<>>)
         \o FlattenSections(Tail(sections))

NonEmptySectionCount(sections) ==
  Cardinality({i \in DOMAIN sections : SectionTruthy(sections[i])})

SeparatorPositions(t) == {i \in DOMAIN t : IsSeparator(t[i])}

\* t without its separators
RECURSIVE WithoutSeparators(_)
WithoutSeparators(t) ==
  IF t = <<>> THEN <<>>
  ELSE (IF IsSeparator(Head(t)) THEN <<>> ELSE <<Head(t)>>)
         \o WithoutSeparators(Tail(t))

\* the positions in the flattened sections after which a new section starts
RECURSIVE SectionEnds(_, _)
SectionEnds(sections, offset) ==
  IF sections = <<>> THEN {}
  ELSE IF SectionTruthy(Head(sections))
         THEN {offset + Len(Head(sections))}
                \cup SectionEnds(Tail(sections), offset + Len(Head(sections)))
         ELSE SectionEnds(Tail(sections), offset)

\* C1: the template is the concatenation of the non-empty sections in order
\* with exactly one separator between two consecutive non-empty sections:
\* N-1 separators for N non-empty sections (0 when N is 0 or 1), none at
\* the start, none at the end, and nothing for an empty section.
C1_SectionsJoinedBySingleSeparators ==
  called =>
    LET n == NonEmptySectionCount(args)
        flat == FlattenSections(args)
        seps == SeparatorPositions(result)
        ends == SectionEnds(args, 0) \ {Len(flat)}
    IN /\ WithoutSeparators(result) = flat
       /\ Cardinality(seps) = (IF n = 0 THEN 0 ELSE n - 1)
       /\ Len(result) = Len(flat) + Cardinality(seps)
       /\ result # <<>> => ~IsSeparator(result[1]) /\ ~IsSeparator(result[Len(result)])
       \* the k-th separator stands right after the k-th non-empty section
       /\ seps = {e + Cardinality({d \in ends : d <= e}) : e \in ends}

C1_Witness ==
  /\ called
  /\ NonEmptySectionCount(args) = 2
  /\ \E i \in DOMAIN args : ~SectionTruthy(args[i])
  /\ Cardinality(SeparatorPositions(result)) = 1

(***************************************************************************)
(* Extension context-menu contributions                                    *)
(***************************************************************************)
\* CRExtensionRTContextMenu.CONTEXT_TYPES
CONTEXT_TYPES == [ALL |-> "all", PAGE |-> "page", EDITABLE |-> "editable"]

\* CRExtensionRTContextMenu.ITEM_TYPES
ITEM_TYPES == [NORMAL |-> "normal", CHECKBOX |-> "checkbox",
               RADIO |-> "radio", SEPERATOR |-> "separator"]

\* a || b on strings: a when a is truthy (non-empty), else b
JsOr(a, b) == IF a # "" THEN a ELSE b

\* new CRExtensionRTContextMenu(extensionId, menuId, menuData)
CRExtensionRTContextMenu(extensionId, menuId, menuData) ==
  [extensionId |-> extensionId,
   id |-> menuId,
   title |-> menuData.title,
   type |-> menuData.type,
   contexts |-> menuData.contexts,
   checked |-> menuData.checked,
   enabled |-> menuData.enabled]

\* the predicate of contextMenus.filter(...): the callback returns true or
\* undefined (falsy)
ValidContextMenu(menu, params) ==
  LET contexts == menu.contexts
  IN IF JsOr(CONTEXT_TYPES.ALL, CONTEXT_TYPES.PAGE) \in contexts
       THEN TRUE
     ELSE IF params.isEditable /\ CONTEXT_TYPES.EDITABLE \in contexts
       THEN TRUE
     ELSE FALSE

\* the closure () => this.extensionOptionSelected(contents, extensionId, menuItem, params);
\* contents and params are those of the launch the menu belongs to
ExtensionClick(extensionId, menuItem) ==
  [call |-> "extensionOptionSelected", extensionId |-> extensionId, menuItem |-> menuItem]

\* renderExtensionMenuItem; <<>> stands for the undefined of the last branch,
\* which Object.assign and the template treat as an object without keys
renderExtensionMenuItem(extensionId, menuItem) ==
  IF menuItem.type = ITEM_TYPES.NORMAL THEN
    [label |-> menuItem.title,
     enabled |-> menuItem.enabled,
     click |-> ExtensionClick(extensionId, menuItem)]
  ELSE IF menuItem.type = ITEM_TYPES.CHECKBOX THEN
    [label |-> menuItem.title,
     type |-> "checkbox",
     checked |-> menuItem.checked,
     click |-> ExtensionClick(extensionId, menuItem)]
  ELSE IF menuItem.type = ITEM_TYPES.RADIO THEN
    [label |-> menuItem.title,
     type |-> "radio",
     checked |-> menuItem.checked,
     click |-> ExtensionClick(extensionId, menuItem)]
  ELSE IF menuItem.type = ITEM_TYPES.SEPERATOR THEN
    [type |-> "separator"]
  ELSE <<>>

\* the contextMenus of one extension after the munge of lines 404-408
MungedContextMenus(extension) ==
  [i \in DOMAIN extension.contextMenus |->
     CRExtensionRTContextMenu(extension.extensionId,
                              extension.contextMenus[i][1],
                              extension.contextMenus[i][2])]

\* what one pass of the second forEach pushes for one extension
RenderExtension(extension, params) ==
  LET contextMenus == MungedContextMenus(extension)
      validContextMenus == SelectSeq(contextMenus, LAMBDA menu : ValidContextMenu(menu, params))
      icon == [createFromPath |-> extension.icons["16"]]
  IN IF Len(validContextMenus) = 1 THEN
       <<ObjectAssign([icon |-> icon],
                      renderExtensionMenuItem(extension.extensionId, validContextMenus[1]))>>
     ELSE IF Len(validContextMenus) > 1 THEN
       <<[label |-> extension.name,
          icon |-> icon,
          submenu |-> [i \in DOMAIN validContextMenus |->
                         renderExtensionMenuItem(extension.extensionId, validContextMenus[i])]]>>
     ELSE <<>>

RECURSIVE RenderExtensions(_, _)
RenderExtensions(extensions, params) ==
  IF extensions = <<>> THEN <<>>
  ELSE RenderExtension(Head(extensions), params) \o RenderExtensions(Tail(extensions), params)

\* renderExtensionSection without the test of lines 399-400
renderExtensionSection_AnySurface(params, env) ==
  RenderExtensions(env.runtimeContextMenuData, params)

\* renderExtensionSection: env.tabRecognized is whether
\* WaveboxWindow.fromTabId(contents.id) resolves, env.runtimeContextMenuData what
\* getRuntimeContextMenuData() returns, as the list of its extensions in key order
renderExtensionSection(params, env) ==
  IF ~env.tabRecognized THEN <<>>
  ELSE RenderExtensions(env.runtimeContextMenuData, params)

(***************************************************************************)
(* The other section builders.  params is the 'context-menu' parameters,    *)
(* env the answers of the collaborators during the build.                   *)
(***************************************************************************)
\* spellcheckService.getHumanizedLanguageName(lang)
HumanizedLanguageName(lang) ==
  CASE lang = "en_US" -> "English (US)" [] lang = "fr" -> "French" [] OTHER -> lang

\* renderSpellingSuggestionMenuItems
renderSpellingSuggestionMenuItems(suggestions) ==
  IF Len(suggestions) > 0
    THEN [i \in DOMAIN suggestions |->
            [label |-> suggestions[i],
             click |-> [call |-> "contents.replaceMisspelling", suggestion |-> suggestions[i]]]]
    ELSE <<[label |-> "No Spelling Suggestions", enabled |-> FALSE]>>

\* renderSpellingSection; env.suggestions is the answer of spellSuggestionsSync
renderSpellingSection(params, env) ==
  IF params.isEditable /\ params.misspelledWord # "" THEN
    LET suggestions == env.suggestions
    IN IF "primary" \in DOMAIN suggestions /\ "secondary" \in DOMAIN suggestions THEN
         <<[label |-> HumanizedLanguageName(suggestions.primary.language),
            submenu |-> renderSpellingSuggestionMenuItems(suggestions.primary.suggestions)],
           [label |-> HumanizedLanguageName(suggestions.secondary.language),
            submenu |-> renderSpellingSuggestionMenuItems(suggestions.secondary.suggestions)]>>
       ELSE
         \* primary || secondary || []: an array is truthy even when empty
         LET suggList == IF "primary" \in DOMAIN suggestions THEN suggestions.primary.suggestions
                         ELSE IF "secondary" \in DOMAIN suggestions THEN suggestions.secondary.suggestions
                         ELSE <<>>
         IN renderSpellingSuggestionMenuItems(suggList)
  ELSE <<>>

\* renderURLSection
renderURLSection(params, env) ==
  IF params.linkURL # "" THEN
    <<[label |-> "Open Link in Browser",
       click |-> [call |-> "shell.openExternal", url |-> params.linkURL]],
      [label |-> "Open Link with Wavebox",
       click |-> [call |-> "openLinkInWaveboxWindow", url |-> params.linkURL]]>>
    \o (IF env.platform = "darwin"
          THEN <<[label |-> "Open Link in Background",
                  click |-> [call |-> "shell.openExternal", url |-> params.linkURL,
                             activate |-> FALSE]]>>
          ELSE <<>>)
    \o <<[label |-> "Copy link Address",
          click |-> [call |-> "clipboard.writeText", text |-> params.linkURL]]>>
  ELSE <<>>

\* renderLookupAndSearchSection; the labels hold the word and the selection,
\* which the model keeps in fields of their own
renderLookupAndSearchSection(params, env) ==
  IF params.selectionText # "" THEN
    (IF params.isEditable /\ params.misspelledWord # ""
       THEN <<[label |-> "Add to Dictionary", word |-> params.misspelledWord,
               click |-> [call |-> "spellchecker.addUserWord", word |-> params.misspelledWord]]>>
       ELSE <<>>)
    \o <<[label |-> "Search Google for", displayText |-> params.selectionText,
          click |-> [call |-> "shell.openExternal", search |-> params.selectionText]]>>
  ELSE <<>>

\* renderRewindSection
renderRewindSection(params, env) ==
  IF params.editFlags.canUndo \/ params.editFlags.canRedo THEN
    <<[label |-> "Undo", role |-> "undo", enabled |-> params.editFlags.canUndo],
      [label |-> "Redo", role |-> "redo", enabled |-> params.editFlags.canRedo]>>
  ELSE <<>>

\* renderEditingSection
renderEditingSection(params, env) ==
  IF params.mediaType = "image" THEN
    <<[label |-> "Open Image in Browser",
       click |-> [call |-> "shell.openExternal", url |-> params.srcURL]],
      [label |-> "Save Image As",
       click |-> [call |-> "contents.downloadURL", url |-> params.srcURL]],
      [label |-> "Copy Image Address",
       click |-> [call |-> "clipboard.writeText", text |-> params.srcURL]]>>
  ELSE
    (IF params.editFlags.canCut THEN <<[label |-> "Cut", role |-> "cut"]>> ELSE <<>>)
    \o (IF params.editFlags.canCopy THEN <<[label |-> "Copy", role |-> "copy"]>> ELSE <<>>)
    \o (IF params.editFlags.canPaste THEN <<[label |-> "Paste", role |-> "paste"]>> ELSE <<>>)
    \o (IF params.editFlags.canPaste
          THEN <<[label |-> "Paste and match style", role |-> "pasteandmatchstyle"]>> ELSE <<>>)
    \o (IF params.editFlags.canSelectAll
          THEN <<[label |-> "Select all", role |-> "selectall"]>> ELSE <<>>)

\* renderPageNavigationSection
renderPageNavigationSection(params, env) ==
  <<[label |-> "Go Back", enabled |-> env.canGoBack, click |-> [call |-> "contents.goBack"]],
    [label |-> "Go Forward", enabled |-> env.canGoForward, click |-> [call |-> "contents.goForward"]],
    [label |-> "Reload", click |-> [call |-> "contents.reload"]]>>

\* renderPageExternalSection
renderPageExternalSection(params, env) ==
  <<[label |-> "Copy current URL",
     click |-> [call |-> "clipboard.writeText", text |-> params.pageURL]],
    [label |-> "Open page in Browser",
     click |-> [call |-> "shell.openExternal", url |-> params.pageURL]],
    [label |-> "Open page with Wavebox",
     click |-> [call |-> "openLinkInWaveboxWindow", url |-> params.pageURL]]>>

\* renderWaveboxSection; env.installedDictionaries is the answer of
\* getInstalledDictionaries(), env.primaryLanguage the primary language
renderWaveboxSection(params, env) ==
  <<[label |-> "Wavebox Settings", click |-> [call |-> "openWaveboxSettings"]]>>
  \o (IF Len(env.installedDictionaries) > 1
        THEN <<[label |-> "Change Dictionary",
                submenu |-> [i \in DOMAIN env.installedDictionaries |->
                   [label |-> HumanizedLanguageName(env.installedDictionaries[i]),
                    type |-> "radio",
                    checked |-> (env.installedDictionaries[i] = env.primaryLanguage),
                    click |-> [call |-> "changePrimarySpellcheckLanguage",
                               lang |-> env.installedDictionaries[i]]]]]>>
        ELSE <<>>)
  \o <<[label |-> "Inspect",
        click |-> [call |-> "contents.inspectElement", x |-> params.x, y |-> params.y]]>>

\* the sections of launchMenu with the URL and spelling sections exchanged
LaunchSections_UrlFirst(params, env) ==
  <<renderURLSection(params, env),
    renderSpellingSection(params, env),
    renderLookupAndSearchSection(params, env),
    renderRewindSection(params, env),
    renderEditingSection(params, env),
    renderPageNavigationSection(params, env),
    renderPageExternalSection(params, env),
    renderExtensionSection(params, env),
    renderWaveboxSection(params, env)>>

\* const sections = [...] of launchMenu
LaunchSections(params, env) ==
  <<renderSpellingSection(params, env),
    renderURLSection(params, env),
    renderLookupAndSearchSection(params, env),
    renderRewindSection(params, env),
    renderEditingSection(params, env),
    renderPageNavigationSection(params, env),
    renderPageExternalSection(params, env),
    renderExtensionSection(params, env),
    renderWaveboxSection(params, env)>>

\* the template launchMenu hands to Menu.buildFromTemplate
LaunchTemplate(params, env) == convertSectionsToTemplate(LaunchSections(params, env))

(***************************************************************************)
(* Specification of renderExtensionSection alone                            *)
(***************************************************************************)
\* the sets of contexts a contribution declares
ContextSets == {{"all"}, {"page"}, {"editable"}, {}}

\* the menuData of the contributions the runtime reports
MenuDataSet ==
  {[title |-> "Item", type |-> "normal", contexts |-> c, checked |-> FALSE, enabled |-> TRUE] :
     c \in ContextSets}
  \cup {[title |-> "Item", type |-> "checkbox", contexts |-> {"page", "editable"},
         checked |-> TRUE, enabled |-> TRUE],
        [title |-> "Item", type |-> "radio", contexts |-> {"editable"},
         checked |-> FALSE, enabled |-> TRUE],
        [title |-> "Item", type |-> "separator", contexts |-> {"all"},
         checked |-> FALSE, enabled |-> TRUE]}

ExtensionName(i) ==
  CASE i = 1 -> "Extension A" [] i = 2 -> "Extension B" [] i = 3 -> "Extension C"
    [] OTHER -> "Extension D"

ExtensionIcon(i) ==
  CASE i = 1 -> "a/icon16.png" [] i = 2 -> "b/icon16.png" [] i = 3 -> "c/icon16.png"
    [] OTHER -> "d/icon16.png"

\* the extension with id i whose contributions have the given menuData, the
\* menu ids being the positions
ExtensionData(i, menuDatas) ==
  [extensionId |-> i,
   name |-> ExtensionName(i),
   icons |-> ("16" :> ExtensionIcon(i)),
   contextMenus |-> [k \in DOMAIN menuDatas |-> <<k, menuDatas[k]>>]]

\* the sum of a sequence of numbers
RECURSIVE SumSeq(_)
SumSeq(sizes) == IF sizes = <<>> THEN 0 ELSE Head(sizes) + SumSeq(Tail(sizes))

\* the sequence flat cut into consecutive pieces of the given sizes
RECURSIVE CutInto(_, _)
CutInto(flat, sizes) ==
  IF sizes = <<>> THEN <<>>
  ELSE <<SubSeq(flat, 1, Head(sizes))>>
         \o CutInto(SubSeq(flat, Head(sizes) + 1, Len(flat)), Tail(sizes))

\* what getRuntimeContextMenuData() can return: up to maxExt extensions with
\* up to maxMenus contributions altogether
RuntimeDataSet(maxExt, maxMenus) ==
  UNION {
    {[i \in DOMAIN sizes |-> ExtensionData(i, CutInto(flat, sizes)[i])] :
       sizes \in {z \in SeqUpTo(0..Len(flat), maxExt) : SumSeq(z) = Len(flat)}} :
    flat \in SeqUpTo(MenuDataSet, maxMenus)}

InitExtension ==
  /\ ServiceIdle
  /\ \E isEditable \in BOOLEAN, tabRecognized \in BOOLEAN :
       \E data \in (IF tabRecognized THEN RuntimeDataSet(MaxExtensions, MaxContribs) ELSE {<<>>}) :
         args = [params |-> [isEditable |-> isEditable],
                 env |-> [tabRecognized |-> tabRecognized, runtimeContextMenuData |-> data]]
  /\ result = <<>>
  /\ called = FALSE
  /\ store = <<>>

RenderExtensionSection ==
  /\ ~called
  /\ result' = renderExtensionSection(args.params, args.env)
  /\ called' = TRUE
  /\ UNCHANGED <<args, serviceVars, store>>

NextExtension == RenderExtensionSection

SpecExtension == InitExtension /\ [][NextExtension]_vars

(***************************************************************************)
(* C7                                                                       *)
(***************************************************************************)
\* the contributions of an extension that passed the filter, in order
ValidContextMenusOf(extension, params) ==
  SelectSeq(MungedContextMenus(extension), LAMBDA menu : ValidContextMenu(menu, params))

\* qualification as the claim states it
QualifiesAsClaimed(menu, params) ==
  \/ "all" \in menu.contexts
  \/ "page" \in menu.contexts
  \/ ("editable" \in menu.contexts /\ params.isEditable)

\* the contributions of an extension that qualify as the claim states it
QualifyingAsClaimed(extension, params) ==
  SelectSeq(MungedContextMenus(extension), LAMBDA menu : QualifiesAsClaimed(menu, params))

\* C7: a contribution passes the filter of renderExtensionSection if and
\* only if its contexts contain 'all', or 'page', or 'editable' while the
\* click target is editable.
C7_QualifiesIffAllPageOrEditable ==
  (called /\ args.env.tabRecognized) =>
    \A e \in DOMAIN args.env.runtimeContextMenuData :
      LET extension == args.env.runtimeContextMenuData[e]
      IN \A m \in DOMAIN extension.contextMenus :
           LET menu == MungedContextMenus(extension)[m]
           IN ValidContextMenu(menu, args.params) <=> QualifiesAsClaimed(menu, args.params)

(***************************************************************************)
(* C8                                                                       *)
(***************************************************************************)
\* the top-level entries of a section that carry the icon of an extension
EntriesOfExtension(section, extension) ==
  SelectSeq(section, LAMBDA e : "icon" \in DOMAIN e
                                  /\ e.icon = [createFromPath |-> extension.icons["16"]])

\* entry is the rendering of the contribution menu of its extension
RendersContribution(entry, menu) ==
  IF menu.type = "separator"
    THEN IsSeparator(entry) /\ "click" \notin DOMAIN entry
    ELSE /\ "click" \in DOMAIN entry
         /\ entry.click.call = "extensionOptionSelected"
         /\ entry.click.extensionId = menu.extensionId
         /\ entry.click.menuItem = menu

\* C8: per extension, one qualifying contribution gives exactly one top-level
\* entry without a submenu, two or more give exactly one entry labelled with
\* the extension's name whose submenu holds the qualifying contributions in
\* order, none gives nothing; with no qualifying contribution at all the
\* section is empty and leaves no trace in the final template.
C8_OneFlatManyGroupedNoneOmitted ==
  (called /\ args.env.tabRecognized) =>
    LET data == args.env.runtimeContextMenuData
        qual(e) == QualifyingAsClaimed(data[e], args.params)
    IN /\ \A e \in DOMAIN data :
            LET emitted == EntriesOfExtension(result, data[e])
            IN /\ Len(qual(e)) = 0 => Len(emitted) = 0
               /\ Len(qual(e)) = 1 =>
                    /\ Len(emitted) = 1
                    /\ "submenu" \notin DOMAIN emitted[1]
                    /\ RendersContribution(emitted[1], qual(e)[1])
               /\ Len(qual(e)) > 1 =>
                    /\ Len(emitted) = 1
                    /\ "submenu" \in DOMAIN emitted[1]
                    /\ emitted[1].label = data[e].name
                    /\ Len(emitted[1].submenu) = Len(qual(e))
                    /\ \A k \in DOMAIN qual(e) :
                         RendersContribution(emitted[1].submenu[k], qual(e)[k])
       /\ (\A e \in DOMAIN data : Len(qual(e)) = 0) =>
            /\ result = <<>>
            /\ convertSectionsToTemplate(<<<<[label |-> "A"]>>, result, <<[label |-> "B"]>>>>)
                 = <<[label |-> "A"], SeparatorItem, [label |-> "B"]>>

\* the same rule with the contributions that pass the filter of the code in
\* the place of those that qualify as claimed
GroupingOfValidContextMenus ==
  (called /\ args.env.tabRecognized) =>
    LET data == args.env.runtimeContextMenuData
        valid(e) == ValidContextMenusOf(data[e], args.params)
    IN /\ Len(result) = Cardinality({e \in DOMAIN data : Len(valid(e)) > 0})
       /\ \A e \in DOMAIN data :
            LET emitted == EntriesOfExtension(result, data[e])
            IN /\ Len(valid(e)) = 0 => Len(emitted) = 0
               /\ Len(valid(e)) = 1 =>
                    /\ Len(emitted) = 1
                    /\ "submenu" \notin DOMAIN emitted[1]
                    /\ RendersContribution(emitted[1], valid(e)[1])
               /\ Len(valid(e)) > 1 =>
                    /\ Len(emitted) = 1
                    /\ "submenu" \in DOMAIN emitted[1]
                    /\ emitted[1].label = data[e].name
                    /\ Len(emitted[1].submenu) = Len(valid(e))
                    /\ \A k \in DOMAIN valid(e) :
                         RendersContribution(emitted[1].submenu[k], valid(e)[k])

(***************************************************************************)
(* Specification of the template of launchMenu alone                        *)
(***************************************************************************)
EditFlagsSet ==
  [canUndo : BOOLEAN, canRedo : BOOLEAN, canCut : BOOLEAN, canCopy : BOOLEAN,
   canPaste : BOOLEAN, canSelectAll : BOOLEAN]

\* the 'context-menu' parameters of a click
ParamsSet ==
  {[isEditable |-> e, misspelledWord |-> w, linkURL |-> l, selectionText |-> t,
    editFlags |-> f, mediaType |-> m,
    srcURL |-> (IF m = "image" THEN "https://wavebox.io/logo.png" ELSE ""),
    pageURL |-> "https://wavebox.io/", frameURL |-> "", x |-> 10, y |-> 20] :
     e \in BOOLEAN, w \in {"", "teh"}, l \in {"", "https://wavebox.io/link"},
     t \in {"", "teh"}, f \in EditFlagsSet, m \in {"none", "image"}}

\* the answers of spellSuggestionsSync
SuggestionsSet ==
  {<<>>,
   [primary |-> [language |-> "en_US", suggestions |-> <<>>]],
   [primary |-> [language |-> "en_US", suggestions |-> <<"the">>]],
   [secondary |-> [language |-> "fr", suggestions |-> <<"the">>]],
   [primary |-> [language |-> "en_US", suggestions |-> <<>>],
    secondary |-> [language |-> "fr", suggestions |-> <<"the">>]],
   [primary |-> [language |-> "en_US", suggestions |-> <<"the">>],
    secondary |-> [language |-> "fr", suggestions |-> <<"the">>]]}

\* the answers of the collaborators to the build for params; an answer that
\* the build does not ask for is fixed
EnvSet(params, runtimeData) ==
  {[platform |-> p, suggestions |-> s, installedDictionaries |-> d,
    primaryLanguage |-> "en_US", canGoBack |-> b, canGoForward |-> FALSE,
    tabRecognized |-> t, runtimeContextMenuData |-> r] :
     p \in (IF params.linkURL # "" THEN {"darwin", "linux"} ELSE {"linux"}),
     s \in (IF params.isEditable /\ params.misspelledWord # "" THEN SuggestionsSet ELSE {<<>>}),
     d \in {<<"en_US">>, <<"en_US", "fr">>},
     b \in {FALSE},
     t \in BOOLEAN,
     r \in runtimeData}

InitTemplate ==
  /\ ServiceIdle
  /\ \E params \in ParamsSet :
       \E env \in EnvSet(params, RuntimeDataSet(1, 1)) :
         /\ (~env.tabRecognized => env.runtimeContextMenuData = <<>>)
         /\ args = [params |-> params, env |-> env]
  /\ result = <<>>
  /\ called = FALSE
  /\ store = <<>>

BuildTemplate ==
  /\ ~called
  /\ result' = LaunchTemplate(args.params, args.env)
  /\ called' = TRUE
  /\ UNCHANGED <<args, serviceVars, store>>

NextTemplate == BuildTemplate

SpecTemplate == InitTemplate /\ [][NextTemplate]_vars

(***************************************************************************)
(* C9                                                                       *)
(***************************************************************************)
\* the sections in the order the claim gives
SectionsInClaimedOrder(params, env) ==
  <<renderSpellingSection(params, env),
    renderURLSection(params, env),
    renderLookupAndSearchSection(params, env),
    renderRewindSection(params, env),
    renderEditingSection(params, env),
    renderPageNavigationSection(params, env),
    renderPageExternalSection(params, env),
    renderExtensionSection(params, env),
    renderWaveboxSection(params, env)>>

\* the sections an entry of the template comes from
SectionsOfEntry(entry, sections) ==
  {i \in DOMAIN sections : \E k \in DOMAIN sections[i] : sections[i][k] = entry}

\* walking the template from its start, no entry is of a section before the
\* latest section met so far
RECURSIVE InSectionOrder(_, _, _)
InSectionOrder(template, sections, latest) ==
  IF template = <<>> THEN TRUE
  ELSE \A from \in {SectionsOfEntry(Head(template), sections)} :
         /\ \A i \in from : i >= latest
         /\ InSectionOrder(Tail(template), sections,
                           IF from = {} THEN latest
                           ELSE CHOOSE i \in from : \A j \in from : j <= i)

\* C9: the entries of the top-level template appear in the order spelling,
\* URL, lookup/search, undo-redo, editing, page-navigation, page-external,
\* extensions, app-settings: no entry of a later section precedes an entry
\* of an earlier one, and every entry of every section is in the template.
C9_FixedSectionOrder ==
  called =>
    \A sections \in {SectionsInClaimedOrder(args.params, args.env)} :
      /\ InSectionOrder(result, sections, 1)
      /\ \A p \in DOMAIN result :
           SectionsOfEntry(result[p], sections) = {} => result[p] = SeparatorItem
      /\ \A i \in DOMAIN sections : \A k \in DOMAIN sections[i] :
           \E p \in DOMAIN result : result[p] = sections[i][k]

\* a template with entries of the spelling, URL, editing and extension sections
C9_Witness ==
  /\ called
  /\ LET sections == SectionsInClaimedOrder(args.params, args.env)
     IN /\ sections[1] # <<>> /\ sections[2] # <<>> /\ sections[3] = <<>>
        /\ sections[5] # <<>> /\ sections[8] # <<>>
        /\ \E p \in DOMAIN result : result[p] = sections[8][1]

(***************************************************************************)
(* The service: binding, launch, teardown and clicks                        *)
(***************************************************************************)
Surfaces == 1..NumSurfaces

\* ElectronWebContents.rootWebContents(contents).id once the contents is
\* attached: surface 3 is a guest hosted by surface 1, the others are the
\* root contents of their own window
RootWebContentsId(s) == IF s = 3 THEN 1 ELSE s

\* WaveboxWindow.fromBrowserWindow(browserWindow) for the window of the root
\* contents r: window 1 is a WaveboxWindow whose root has no context menu,
\* window 2 one whose root has a context menu, the others are no WaveboxWindow
\* (<<>> stands for undefined)
WaveboxWindowOfRoot(r) ==
  IF r = 1 THEN [rootWebContentsHasContextMenu |-> FALSE, rootWebContentsId |-> 1]
  ELSE IF r = 2 THEN [rootWebContentsHasContextMenu |-> TRUE, rootWebContentsId |-> 2]
  ELSE <<>>

\* what the lookups of the root contents and of its browser window give
Resolutions == {"noRootContents", "noBrowserWindow", "resolved"}

\* the has(webContentsId) test left out
AlreadyConnected_Never(connected, webContentsId) == FALSE

\* this[privConnected].has(webContentsId)
AlreadyConnected(connected, webContentsId) == webContentsId \in connected

\* a 'destroyed' listener that leaves the set as it is
DeleteConnected_Keep(connected, webContentsId) == connected

\* this[privConnected].delete(webContentsId)
DeleteConnected(connected, webContentsId) == connected \ {webContentsId}

\* the test of lines 68-70 with the flag disregarded: the root contents of
\* every WaveboxWindow is taken to be unsuitable
IsUnsuitableRoot_AnyWaveboxRoot(webContentsId) ==
  LET waveboxWindow == WaveboxWindowOfRoot(RootWebContentsId(webContentsId))
  IN /\ waveboxWindow # <<>>
     /\ waveboxWindow.rootWebContentsId = webContentsId

\* lines 67-70: the root contents of a WaveboxWindow without context menu
IsUnsuitableRoot(webContentsId) ==
  LET waveboxWindow == WaveboxWindowOfRoot(RootWebContentsId(webContentsId))
  IN /\ waveboxWindow # <<>>
     /\ ~waveboxWindow.rootWebContentsHasContextMenu
     /\ waveboxWindow.rootWebContentsId = webContentsId

\* the callback without the returns of lines 64 and 66
ReachesBind_NoWindowTest(contents, resolution) ==
  /\ ~isDestroyed[contents]
  /\ ~AlreadyConnected(privConnected, contents)
  /\ ~IsUnsuitableRoot(contents)

\* whether the callback of setImmediate reaches the lines under "Bind"
ReachesBind(contents, resolution) ==
  /\ ~isDestroyed[contents]
  /\ ~AlreadyConnected(privConnected, contents)
  /\ resolution = "resolved"
  /\ ~IsUnsuitableRoot(contents)

Init ==
  /\ isDestroyed = [s \in Surfaces |-> FALSE]
  /\ destroyedEmitted = [s \in Surfaces |-> FALSE]
  /\ immediates = <<>>
  /\ privConnected = {}
  /\ contextMenuListeners = [s \in Surfaces |-> 0]
  /\ destroyedListeners = [s \in Surfaces |-> 0]
  /\ menus = <<>>
  /\ lastLaunch = <<>>
  /\ lastClick = <<>>
  /\ spellcheckerCalls = 0
  /\ runtimeQueries = 0
  /\ createEvents = [s \in Surfaces |-> 0]
  /\ contextMenuEvents = 0
  /\ args = <<>>
  /\ result = <<>>
  /\ called = FALSE
  /\ store = <<>>

RECURSIVE SumOver(_, _)
SumOver(f, S) ==
  IF S = {} THEN 0
  ELSE LET x == CHOOSE y \in S : TRUE IN f[x] + SumOver(f, S \ {x})

\* _handleWebContentsCreated(evt, contents): defers the binding
handleWebContentsCreated(contents) ==
  /\ immediates' = Append(immediates, contents)
  /\ createEvents' = [createEvents EXCEPT ![contents] = @ + 1]
  /\ lastLaunch' = <<>>
  /\ lastClick' = <<>>
  /\ UNCHANGED <<isDestroyed, destroyedEmitted, privConnected, contextMenuListeners,
                 destroyedListeners, menus, spellcheckerCalls, runtimeQueries,
                 contextMenuEvents, fnVars, store>>

\* the app emits 'web-contents-created' for a surface
WebContentsCreated(contents) ==
  /\ ~isDestroyed[contents]
  /\ SumOver(createEvents, Surfaces) < MaxCreateEvents
  /\ handleWebContentsCreated(contents)

\* the app emits 'browser-window-created' for the window of a root contents:
\* _handleBrowserWindowCreated passes window.webContents on
BrowserWindowCreated(contents) ==
  /\ RootWebContentsId(contents) = contents
  /\ ~isDestroyed[contents]
  /\ SumOver(createEvents, Surfaces) < MaxCreateEvents
  /\ handleWebContentsCreated(contents)

\* the oldest callback of setImmediate runs (lines 58-77)
RunImmediate(resolution) ==
  /\ immediates # <<>>
  /\ LET contents == Head(immediates)
     IN /\ immediates' = Tail(immediates)
        /\ IF ReachesBind(contents, resolution) THEN
             /\ privConnected' = privConnected \cup {contents}
             /\ contextMenuListeners' = [contextMenuListeners EXCEPT ![contents] = @ + 1]
             /\ destroyedListeners' = [destroyedListeners EXCEPT ![contents] = @ + 1]
           ELSE
             UNCHANGED <<privConnected, contextMenuListeners, destroyedListeners>>
  /\ lastLaunch' = <<>>
  /\ lastClick' = <<>>
  /\ UNCHANGED <<isDestroyed, destroyedEmitted, menus, spellcheckerCalls,
                 runtimeQueries, createEvents, contextMenuEvents, fnVars, store>>

\* a surface is destroyed: contents.isDestroyed() turns true
DestroySurface(contents) ==
  /\ ~isDestroyed[contents]
  /\ isDestroyed' = [isDestroyed EXCEPT ![contents] = TRUE]
  /\ lastLaunch' = <<>>
  /\ lastClick' = <<>>
  /\ UNCHANGED <<destroyedEmitted, immediates, privConnected, contextMenuListeners,
                 destroyedListeners, menus, spellcheckerCalls, runtimeQueries,
                 createEvents, contextMenuEvents, fnVars, store>>

\* the destroyed surface emits 'destroyed': its listeners of line 75 run
EmitDestroyed(contents) ==
  /\ isDestroyed[contents]
  /\ ~destroyedEmitted[contents]
  /\ destroyedEmitted' = [destroyedEmitted EXCEPT ![contents] = TRUE]
  /\ privConnected' = IF destroyedListeners[contents] > 0
                        THEN DeleteConnected(privConnected, contents)
                        ELSE privConnected
  /\ lastLaunch' = <<>>
  /\ lastClick' = <<>>
  /\ UNCHANGED <<isDestroyed, immediates, contextMenuListeners, destroyedListeners,
                 menus, spellcheckerCalls, runtimeQueries, createEvents,
                 contextMenuEvents, fnVars, store>>

(***************************************************************************)
(* launchMenu, the teardown timer and the click handlers                    *)
(***************************************************************************)
\* the calls into the spellchecker service during one build
SpellcheckerCallsOfBuild(params, env) ==
  (IF params.isEditable /\ params.misspelledWord # ""
     THEN 1 + (IF "primary" \in DOMAIN env.suggestions /\ "secondary" \in DOMAIN env.suggestions
                 THEN 2 ELSE 0)
     ELSE 0)
  + 1
  + (IF Len(env.installedDictionaries) > 1 THEN Len(env.installedDictionaries) ELSE 0)

\* the calls of getRuntimeContextMenuData() during one build
RuntimeQueriesOfBuild(params, env) == IF env.tabRecognized THEN 1 ELSE 0

\* the test of lines 93 and 95 with the browser window not looked at
LaunchAborts_RootOnly(resolution) == resolution = "noRootContents"

\* lines 92-95: launchMenu returns before building
LaunchAborts(resolution) == resolution # "resolved"

\* the menu with no timer set for its teardown
NewMenu_NoTimer(contents, params, env) ==
  [contents |-> contents,
   params |-> params,
   template |-> LaunchTemplate(params, env),
   state |-> "Displaying",
   timer |-> "none",
   destroyed |-> 0,
   clicked |-> FALSE]

\* the menu built and its timer set, but never popped up
NewMenu_NotPoppedUp(contents, params, env) ==
  [contents |-> contents,
   params |-> params,
   template |-> LaunchTemplate(params, env),
   state |-> "Building",
   timer |-> "pending",
   destroyed |-> 0,
   clicked |-> FALSE]

\* the menu of line 109, popped up by line 110, with the timer of line 111
NewMenu(contents, params, env) ==
  [contents |-> contents,
   params |-> params,
   template |-> LaunchTemplate(params, env),
   state |-> "Displaying",
   timer |-> "pending",
   destroyed |-> 0,
   clicked |-> FALSE]

\* the surface emits 'context-menu': launchMenu runs once per listener
ContextMenuEvent(contents, params, env, resolution) ==
  /\ ~isDestroyed[contents]
  /\ contextMenuListeners[contents] > 0
  /\ contextMenuEvents < MaxContextMenuEvents
  /\ contextMenuEvents' = contextMenuEvents + 1
  /\ lastLaunch' = [sender |-> contents, resolution |-> resolution]
  /\ IF LaunchAborts(resolution) THEN
       UNCHANGED <<menus, spellcheckerCalls, runtimeQueries>>
     ELSE
       LET n == contextMenuListeners[contents]
       IN /\ menus' = menus \o [k \in 1..n |-> NewMenu(contents, params, env)]
          /\ spellcheckerCalls' = spellcheckerCalls + n * SpellcheckerCallsOfBuild(params, env)
          /\ runtimeQueries' = runtimeQueries + n * RuntimeQueriesOfBuild(params, env)
  /\ lastClick' = <<>>
  /\ UNCHANGED <<isDestroyed, destroyedEmitted, immediates, privConnected,
                 contextMenuListeners, destroyedListeners, createEvents, fnVars, store>>

\* the menus whose timer of line 111 has not fired
PendingTimers == {m \in DOMAIN menus : menus[m].timer = "pending"}

\* the timer destroying whichever menu was launched last, as if the menu were
\* kept in a field of the service
MenuOfTimer_Latest(m) == Len(menus)

\* the menu the closure of the timer of launch m holds: the const of line 109
\* of that run of launchMenu
MenuOfTimer(m) == m

\* the oldest timer fires: MenuTool.fullDestroyMenu(menu)
TeardownTimer ==
  /\ PendingTimers # {}
  /\ LET m == CHOOSE k \in PendingTimers : \A j \in PendingTimers : k <= j
     IN menus' = [[menus EXCEPT ![m].timer = "fired"]
                    EXCEPT ![MenuOfTimer(m)].state = "TornDown",
                           ![MenuOfTimer(m)].destroyed = @ + 1]
  /\ lastLaunch' = <<>>
  /\ lastClick' = <<>>
  /\ UNCHANGED <<isDestroyed, destroyedEmitted, immediates, privConnected,
                 contextMenuListeners, destroyedListeners, spellcheckerCalls,
                 runtimeQueries, createEvents, contextMenuEvents, fnVars, store>>

\* the click closures of a template, those of its submenus included
ClickClosures(template) ==
  {template[i].click : i \in {j \in DOMAIN template : "click" \in DOMAIN template[j]}}
  \cup UNION {{template[i].submenu[k].click :
                 k \in {j \in DOMAIN template[i].submenu : "click" \in DOMAIN template[i].submenu[j]}} :
              i \in {j \in DOMAIN template : "submenu" \in DOMAIN template[j]}}

\* obj[key] under the name as, or nothing when obj[key] is undefined
OptionalField(obj, key, as) == IF key \in DOMAIN obj THEN (as :> obj[key]) ELSE <<>>

\* the clickParams with the checked state forwarded unchanged
ClickParams_CheckedUnchanged(menuItem, params) ==
  ObjectAssign(
    ObjectAssign(
      ObjectAssign(
        ObjectAssign(
          [menuItemId |-> menuItem.id,
           linkUrl |-> params.linkURL,
           srcUrl |-> params.srcURL,
           pageUrl |-> params.pageURL,
           frameUrl |-> params.frameURL,
           selectionText |-> params.selectionText],
          OptionalField(menuItem, "parentId", "parentMenuItemId")),
        IF params.mediaType = "none" THEN <<>> ELSE [mediaType |-> params.mediaType]),
      OptionalField(params, "editable", "editable")),
    IF menuItem.type = ITEM_TYPES.CHECKBOX \/ menuItem.type = ITEM_TYPES.RADIO
      THEN [wasChecked |-> menuItem.checked, checked |-> menuItem.checked]
      ELSE <<>>)

\* the clickParams of extensionOptionSelected (lines 515-529)
ClickParams(menuItem, params) ==
  ObjectAssign(
    ObjectAssign(
      ObjectAssign(
        ObjectAssign(
          [menuItemId |-> menuItem.id,
           linkUrl |-> params.linkURL,
           srcUrl |-> params.srcURL,
           pageUrl |-> params.pageURL,
           frameUrl |-> params.frameURL,
           selectionText |-> params.selectionText],
          OptionalField(menuItem, "parentId", "parentMenuItemId")),
        IF params.mediaType = "none" THEN <<>> ELSE [mediaType |-> params.mediaType]),
      OptionalField(params, "editable", "editable")),
    IF menuItem.type = ITEM_TYPES.CHECKBOX \/ menuItem.type = ITEM_TYPES.RADIO
      THEN [wasChecked |-> menuItem.checked, checked |-> ~menuItem.checked]
      ELSE <<>>)

\* extensionOptionSelected without the test of line 513
extensionOptionSelected_NoDestroyedTest(contents, extensionId, menuItem, params) ==
  <<[api |-> "contextMenuItemSelected",
     extensionId |-> extensionId,
     contents |-> contents,
     clickParams |-> ClickParams(menuItem, params)]>>

\* extensionOptionSelected: the calls it makes into the extension runtime
extensionOptionSelected(contents, extensionId, menuItem, params) ==
  IF isDestroyed[contents] THEN <<>>
  ELSE <<[api |-> "contextMenuItemSelected",
          extensionId |-> extensionId,
          contents |-> contents,
          clickParams |-> ClickParams(menuItem, params)]>>

\* the calls a click closure makes when it runs
CallsOfClick(click, contents, params) ==
  IF click.call = "extensionOptionSelected"
    THEN extensionOptionSelected(contents, click.extensionId, click.menuItem, params)
    ELSE <<[api |-> click.call, contents |-> contents]>>

\* a click that also destroys the menu
MenuAfterClick_TornDown(menu) ==
  [menu EXCEPT !.clicked = TRUE, !.state = "TornDown", !.destroyed = @ + 1]

\* the menu once one of its items was clicked: no closure touches the menu
MenuAfterClick(menu) == [menu EXCEPT !.clicked = TRUE]

\* the user selects an item of a displayed menu: its click closure runs
ClickItem(m) ==
  /\ m \in DOMAIN menus
  /\ menus[m].state = "Displaying"
  /\ ~menus[m].clicked
  /\ \E click \in ClickClosures(menus[m].template) :
       lastClick' = [menu |-> m, click |-> click,
                     calls |-> CallsOfClick(click, menus[m].contents, menus[m].params)]
  /\ menus' = [menus EXCEPT ![m] = MenuAfterClick(menus[m])]
  /\ lastLaunch' = <<>>
  /\ UNCHANGED <<isDestroyed, destroyedEmitted, immediates, privConnected,
                 contextMenuListeners, destroyedListeners, spellcheckerCalls,
                 runtimeQueries, createEvents, contextMenuEvents, fnVars, store>>

(***************************************************************************)
(* The click contexts and answers of the collaborators of the service       *)
(* specification                                                            *)
(***************************************************************************)
NoEditFlags ==
  [canUndo |-> FALSE, canRedo |-> FALSE, canCut |-> FALSE, canCopy |-> FALSE,
   canPaste |-> FALSE, canSelectAll |-> FALSE]

\* a click on a page of a recognized tab, with one extension contributing a
\* normal and a checked checkbox item
PageClick ==
  [params |-> [isEditable |-> FALSE, misspelledWord |-> "", linkURL |-> "",
               selectionText |-> "", editFlags |-> NoEditFlags, mediaType |-> "none",
               srcURL |-> "", pageURL |-> "https://wavebox.io/", frameURL |-> "",
               x |-> 10, y |-> 20],
   env |-> [platform |-> "linux", suggestions |-> <<>>,
            installedDictionaries |-> <<"en_US">>, primaryLanguage |-> "en_US",
            canGoBack |-> FALSE, canGoForward |-> FALSE, tabRecognized |-> TRUE,
            runtimeContextMenuData |->
              <<ExtensionData(1,
                  <<[title |-> "Item", type |-> "normal", contexts |-> {"all"},
                     checked |-> FALSE, enabled |-> TRUE],
                    [title |-> "Item", type |-> "checkbox", contexts |-> {"all"},
                     checked |-> TRUE, enabled |-> TRUE]>>)>>]]

\* a click on a misspelled word of an editable field of a surface that is no
\* recognized tab, while the runtime holds the contributions of PageClick
MisspelledWordClick ==
  [params |-> [isEditable |-> TRUE, misspelledWord |-> "teh", linkURL |-> "",
               selectionText |-> "teh",
               editFlags |-> [NoEditFlags EXCEPT !.canUndo = TRUE, !.canPaste = TRUE],
               mediaType |-> "none",
               srcURL |-> "", pageURL |-> "https://wavebox.io/", frameURL |-> "",
               x |-> 10, y |-> 20],
   env |-> [platform |-> "linux",
            suggestions |-> [primary |-> [language |-> "en_US", suggestions |-> <<"the">>]],
            installedDictionaries |-> <<"en_US", "fr">>, primaryLanguage |-> "en_US",
            canGoBack |-> TRUE, canGoForward |-> FALSE, tabRecognized |-> FALSE,
            runtimeContextMenuData |-> PageClick.env.runtimeContextMenuData]]

ClickContexts == {PageClick, MisspelledWordClick}

\* the positions a menu can have in menus
MenuIds == 1..MaxContextMenuEvents

(***************************************************************************)
(* Specification of the binding: creation events, deferred callbacks and    *)
(* destruction of the surfaces, from the state the constructor leaves       *)
(***************************************************************************)
NextBinding ==
  \/ \E contents \in Surfaces : WebContentsCreated(contents)
  \/ \E contents \in Surfaces : BrowserWindowCreated(contents)
  \/ \E resolution \in Resolutions : RunImmediate(resolution)
  \/ \E contents \in Surfaces : DestroySurface(contents)
  \/ \E contents \in Surfaces : EmitDestroyed(contents)

SpecBinding == Init /\ [][NextBinding]_vars

(***************************************************************************)
(* Specification of the menus: 'context-menu' events, teardown timers,      *)
(* clicks and destruction of the surfaces, from the state in which the      *)
(* callback of every surface has run                                        *)
(***************************************************************************)
\* the surfaces the callback binds once their window is resolved
SuitableSurfaces == {s \in Surfaces : ~IsUnsuitableRoot(s)}

InitMenu ==
  /\ isDestroyed = [s \in Surfaces |-> FALSE]
  /\ destroyedEmitted = [s \in Surfaces |-> FALSE]
  /\ immediates = <<>>
  /\ privConnected = SuitableSurfaces
  /\ contextMenuListeners = [s \in Surfaces |-> IF s \in SuitableSurfaces THEN 1 ELSE 0]
  /\ destroyedListeners = [s \in Surfaces |-> IF s \in SuitableSurfaces THEN 1 ELSE 0]
  /\ menus = <<>>
  /\ lastLaunch = <<>>
  /\ lastClick = <<>>
  /\ spellcheckerCalls = 0
  /\ runtimeQueries = 0
  /\ createEvents = [s \in Surfaces |-> 1]
  /\ contextMenuEvents = 0
  /\ args = <<>>
  /\ result = <<>>
  /\ called = FALSE
  /\ store = <<>>

NextMenu ==
  \/ \E contents \in Surfaces, c \in ClickContexts, resolution \in Resolutions :
       ContextMenuEvent(contents, c.params, c.env, resolution)
  \/ TeardownTimer
  \/ \E m \in MenuIds : ClickItem(m)
  \/ \E contents \in SuitableSurfaces : DestroySurface(contents)
  \/ \E contents \in SuitableSurfaces : EmitDestroyed(contents)

SpecMenu == InitMenu /\ [][NextMenu]_vars

\* the menus with every click on a page: which item is selected, and of which
\* menu, has no part in the firing of the timers
NextMenuLive ==
  \/ \E contents \in Surfaces, resolution \in Resolutions :
       ContextMenuEvent(contents, PageClick.params, PageClick.env, resolution)
  \/ TeardownTimer
  \/ \E m \in MenuIds : ClickItem(m)
  \/ \E contents \in SuitableSurfaces : DestroySurface(contents)
  \/ \E contents \in SuitableSurfaces : EmitDestroyed(contents)

\* the timers of setTimeout fire
LiveSpecMenu == InitMenu /\ [][NextMenuLive]_vars /\ WF_vars(TeardownTimer)

(***************************************************************************)
(* C2                                                                       *)
(***************************************************************************)
\* C2: whatever the interleaving of creation events, deferred callbacks and
\* destructions, no surface has more than one 'context-menu' listener of the
\* service.
C2_AtMostOneListener ==
  \A s \in Surfaces : contextMenuListeners[s] <= 1

\* two callbacks ran for a surface that had a root contents' window created
\* after its own creation event, and it has one listener
C2_Witness ==
  \E s \in Surfaces :
    /\ createEvents[s] >= 2
    /\ s \notin Range(immediates)
    /\ contextMenuListeners[s] = 1

(***************************************************************************)
(* C3                                                                       *)
(***************************************************************************)
\* C3: privConnected holds exactly the ids of the surfaces that have the
\* listener attached and whose 'destroyed' event was not handled yet.
C3_ConnectedIsBoundAndNotDestroyed ==
  privConnected = {s \in Surfaces : contextMenuListeners[s] >= 1 /\ ~destroyedEmitted[s]}

\* a surface was bound, was in the set, and left it when its 'destroyed'
\* event was handled
C3_Witness ==
  \E s \in Surfaces :
    contextMenuListeners[s] = 1 /\ destroyedEmitted[s] /\ s \notin privConnected

(***************************************************************************)
(* C4                                                                       *)
(***************************************************************************)
\* C4: every menu that is displayed is eventually torn down, clicked or not.
C4_DisplayedMenuEventuallyTornDown ==
  \A m \in MenuIds :
    (m \in DOMAIN menus /\ menus[m].state = "Displaying")
      ~> (m \in DOMAIN menus /\ menus[m].state = "TornDown" /\ menus[m].destroyed > 0)

\* a menu was torn down without any of its items having been clicked
C4_Witness ==
  \E m \in DOMAIN menus :
    menus[m].state = "TornDown" /\ menus[m].destroyed = 1 /\ ~menus[m].clicked

C6_UnresolvedWindowAbortsBuild ==
  [][(contextMenuEvents' = contextMenuEvents + 1 /\ lastLaunch'.resolution # "resolved") =>
       /\ menus' = menus
       /\ spellcheckerCalls' = spellcheckerCalls
       /\ runtimeQueries' = runtimeQueries]_vars

\* the only event so far found no browser window, and nothing was built
C6_Witness ==
  /\ contextMenuEvents = 1
  /\ lastLaunch # <<>>
  /\ lastLaunch.resolution = "noBrowserWindow"
  /\ contextMenuListeners[lastLaunch.sender] = 1
  /\ menus = <<>>
  /\ spellcheckerCalls = 0

(***************************************************************************)
(* C10                                                                      *)
(***************************************************************************)
\* C10: the click of an extension item makes no call when its surface is
\* destroyed, and otherwise exactly one call of contextMenuItemSelected with
\* the extension id, the surface and the payload of the item.
C10_ExtensionClickNoOpWhenDestroyed ==
  [][\A m \in DOMAIN menus :
       (/\ ~menus[m].clicked
        /\ menus'[m].clicked
        /\ lastClick'.click.call = "extensionOptionSelected") =>
         IF isDestroyed[menus[m].contents]
           THEN lastClick'.calls = <<>>
           ELSE /\ Len(lastClick'.calls) = 1
                /\ lastClick'.calls[1].api = "contextMenuItemSelected"
                /\ lastClick'.calls[1].extensionId = lastClick'.click.extensionId
                /\ lastClick'.calls[1].contents = menus[m].contents
                /\ lastClick'.calls[1].clickParams.menuItemId = lastClick'.click.menuItem.id
                /\ lastClick'.calls[1].clickParams.pageUrl = menus[m].params.pageURL]_vars

\* an extension item was clicked after its surface was destroyed
C10_Witness ==
  /\ lastClick # <<>>
  /\ lastClick.click.call = "extensionOptionSelected"
  /\ isDestroyed[menus[lastClick.menu].contents]
  /\ lastClick.calls = <<>>

(***************************************************************************)
(* C11                                                                      *)
(***************************************************************************)
\* the click closures that call a method of the surface of their menu:
\* lines 225, 254, 259, 263, 328 and 378 call it directly, and
\* openLinkInWaveboxWindow (lines 152, 286) calls contents.getWebPreferences()
\* at line 489; none of them tests contents.isDestroyed()
OperatesOnSurface(api) ==
  api \in {"contents.replaceMisspelling", "contents.downloadURL", "contents.goBack",
           "contents.goForward", "contents.reload", "contents.inspectElement",
           "openLinkInWaveboxWindow", "contextMenuItemSelected"}

\* C11 as claimed: a click handler that runs after the surface of its menu was
\* destroyed makes no call that operates on that surface.
C11_ClickOnDestroyedSurfaceIsNoOp ==
  (lastClick # <<>> /\ isDestroyed[menus[lastClick.menu].contents]) =>
    \A i \in DOMAIN lastClick.calls : ~OperatesOnSurface(lastClick.calls[i].api)

(***************************************************************************)
(* Specification of extensionOptionSelected: the click of one extension     *)
(* item, for every click context, contribution and state of the surface     *)
(***************************************************************************)
\* the menuData of the contributions that render with a click closure
ClickableMenuDataSet ==
  {[title |-> "Item", type |-> t, contexts |-> {"all"}, checked |-> c, enabled |-> TRUE] :
     t \in {ITEM_TYPES.NORMAL, ITEM_TYPES.CHECKBOX, ITEM_TYPES.RADIO}, c \in BOOLEAN}

\* the click contexts: the editFlags have no part in the payload
ClickParamsSet == {params \in ParamsSet : params.editFlags = NoEditFlags}

InitClick ==
  /\ isDestroyed \in [Surfaces -> BOOLEAN]
  /\ destroyedEmitted = <<>>
  /\ immediates = <<>>
  /\ privConnected = {}
  /\ contextMenuListeners = <<>>
  /\ destroyedListeners = <<>>
  /\ menus = <<>>
  /\ lastLaunch = <<>>
  /\ lastClick = <<>>
  /\ spellcheckerCalls = 0
  /\ runtimeQueries = 0
  /\ createEvents = 0
  /\ contextMenuEvents = 0
  /\ \E contents \in Surfaces, extensionId \in 1..MaxExtensions,
        menuData \in ClickableMenuDataSet, params \in ClickParamsSet :
       args = [contents |-> contents,
               extensionId |-> extensionId,
               menuItem |-> CRExtensionRTContextMenu(extensionId, 1, menuData),
               params |-> params]
  /\ result = <<>>
  /\ called = FALSE
  /\ store = <<>>

\* the closure of lines 453, 460 or 467 runs
ExtensionOptionSelected ==
  /\ ~called
  /\ result' = extensionOptionSelected(args.contents, args.extensionId, args.menuItem, args.params)
  /\ called' = TRUE
  /\ UNCHANGED <<args, serviceVars, store>>

NextClick == ExtensionOptionSelected

SpecClick == InitClick /\ [][NextClick]_vars

(***************************************************************************)
(* C12                                                                      *)
(***************************************************************************)
\* C12: the payload of a checkbox or radio contribution has wasChecked equal
\* to the checked state of the contribution the menu was built from and
\* checked equal to its negation; the payload of any other contribution has
\* neither key.
C12_CheckedStateForwarded ==
  (called /\ ~isDestroyed[args.contents]) =>
    /\ Len(result) = 1
    /\ \A clickParams \in {result[1].clickParams} :
         IF args.menuItem.type \in {ITEM_TYPES.CHECKBOX, ITEM_TYPES.RADIO}
           THEN /\ {"wasChecked", "checked"} \subseteq DOMAIN clickParams
                /\ clickParams.wasChecked = args.menuItem.checked
                /\ clickParams.checked = ~args.menuItem.checked
           ELSE {"wasChecked", "checked"} \cap DOMAIN clickParams = {}

\* a checked radio item of a live surface was clicked: the payload says it
\* was checked and no longer is
C12_Witness ==
  /\ called
  /\ ~isDestroyed[args.contents]
  /\ args.menuItem.type = ITEM_TYPES.RADIO
  /\ args.menuItem.checked
  /\ Len(result) = 1
  /\ result[1].clickParams.wasChecked
  /\ ~result[1].clickParams.checked

(***************************************************************************)
(* mailboxStore and mailboxDispatch: the dispatch of a named action to the  *)
(* reducer chain of its target, the commit of the new state and the         *)
(* notification of the subscribers                                          *)
(***************************************************************************)
\* the mailboxes of the store: a Google mailbox with a communication service
\* and a Slack mailbox with its default service
MailboxIds == {1, 2}
MailboxTypeOf(mailboxId) == IF mailboxId = 1 THEN "GOOGLE" ELSE "SLACK"
ServiceTypeOf(mailboxId) == IF mailboxId = 1 THEN "COMMUNICATION" ELSE "DEFAULT"

\* the values a payload carries
Payloads == {1, 2}

\* the state of a mailbox and of its service
InitialMailbox(mailboxId) ==
  [type |-> MailboxTypeOf(mailboxId), serviceType |-> ServiceTypeOf(mailboxId),
   name |-> 1, profile |-> 1, unread |-> 1, settings |-> 1]

InitialMailboxes == [mailboxId \in MailboxIds |-> InitialMailbox(mailboxId)]

\* the action names each reducer defines
Defines(reducer) ==
  CASE reducer = "MailboxReducer" -> {"setName"}
    [] reducer = "GoogleMailboxReducer" -> {"setProfileInfo"}
    [] reducer = "SlackMailboxReducer" -> {"setTeamOverview"}
    [] reducer = "ServiceReducer" -> {"setUnread"}
    [] reducer = "GoogleDefaultServiceReducer" -> {"setCustomAvatar"}
    [] reducer = "GoogleCommunicationServiceReducer" -> {"setUnreadMode"}
    [] reducer = "SlackDefaultServiceReducer" -> {}
    [] OTHER -> {}

\* the field of the state an action sets
FieldOf(actionName) ==
  CASE actionName = "setName" -> "name"
    [] actionName \in {"setProfileInfo", "setTeamOverview"} -> "profile"
    [] actionName = "setUnread" -> "unread"
    [] OTHER -> "settings"

\* the names callers dispatch; no reducer defines setColorTheme
ActionNames ==
  {"setName", "setProfileInfo", "setTeamOverview", "setUnread", "setCustomAvatar",
   "setUnreadMode", "setColorTheme"}

\* the reducer chain of a target, the most specific reducer first; a dispatch
\* without a service id (0) targets the mailbox
ReducerChain(mailboxType, serviceType, serviceId) ==
  IF serviceId = 0 THEN
    IF mailboxType = "GOOGLE" THEN <<"GoogleMailboxReducer", "MailboxReducer">>
    ELSE <<"SlackMailboxReducer", "MailboxReducer">>
  ELSE IF mailboxType = "GOOGLE" THEN
    IF serviceType = "COMMUNICATION"
      THEN <<"GoogleCommunicationServiceReducer", "GoogleDefaultServiceReducer",
             "ServiceReducer">>
      ELSE <<"GoogleDefaultServiceReducer", "ServiceReducer">>
  ELSE <<"SlackDefaultServiceReducer", "ServiceReducer">>

\* the most specific reducer of the chain that defines the action, or "none"
RECURSIVE ResolveReducer(_, _)
ResolveReducer(chain, actionName) ==
  IF chain = <<>> THEN "none"
  ELSE IF actionName \in Defines(Head(chain)) THEN Head(chain)
  ELSE ResolveReducer(Tail(chain), actionName)

\* a reducer: the new state, or the state it was given when the payload
\* changes nothing
Reduce(actionName, state, payload) ==
  IF state[FieldOf(actionName)] = payload THEN state
  ELSE [state EXCEPT ![FieldOf(actionName)] = payload]

\* the store once the app has started, with its subscribers registered
InitialStore ==
  [mailboxes |-> InitialMailboxes,
   pc |-> "idle",                \* idle, reduced (new state computed) or committed
   accepted |-> <<>>,            \* the dispatches whose reducer returned a new state
   notified |-> 0,               \* subscribers notified of the dispatch in progress
   logs |-> [subscriber \in 1..NumSubscribers |-> <<>>],
   dispatched |-> 0,             \* dispatch calls so far
   outcome |-> "none",           \* how the latest dispatch call returned
   request |-> <<>>]             \* the latest dispatch call

\* the dispatch whose target does not exist raises NotFoundError
DispatchNotFound(st) ==
  [st EXCEPT !.dispatched = @ + 1, !.outcome = "NotFoundError"]

\* the dispatch of an action no reducer defines, raising UnsupportedActionError
DispatchUnresolved_Throws(st) ==
  [st EXCEPT !.dispatched = @ + 1, !.outcome = "UnsupportedActionError"]

\* the dispatch of an action no reducer of the chain defines returns silently
DispatchUnresolved(st) ==
  [st EXCEPT !.dispatched = @ + 1, !.outcome = "noop"]

\* the dispatch whose reducer returned the state unchanged commits nothing
DispatchUnchanged(st) ==
  [st EXCEPT !.dispatched = @ + 1, !.outcome = "unchanged"]

\* the dispatch whose reducer returned a new state
DispatchReduced(st, mailboxId, newState) ==
  [st EXCEPT !.dispatched = @ + 1,
             !.outcome = "committing",
             !.pc = "reduced",
             !.accepted = Append(@, [dispatch |-> st.dispatched + 1,
                                     mailboxId |-> mailboxId,
                                     newState |-> newState])]

\* dispatch(actionName, mailboxId, [serviceId], payload), steps 1 to 4; a
\* dispatch begins only when the one before it has returned
Dispatch(actionName, mailboxId, serviceId, payload) ==
  /\ store.pc = "idle"
  /\ store.dispatched < MaxDispatches
  /\ store' =
      [(IF mailboxId \notin DOMAIN store.mailboxes \/ serviceId \notin {0, 1}
         THEN DispatchNotFound(store)
       ELSE IF ResolveReducer(ReducerChain(store.mailboxes[mailboxId].type,
                                           store.mailboxes[mailboxId].serviceType,
                                           serviceId), actionName) = "none"
         THEN DispatchUnresolved(store)
       ELSE IF Reduce(actionName, store.mailboxes[mailboxId], payload)
                 = store.mailboxes[mailboxId]
         THEN DispatchUnchanged(store)
       ELSE DispatchReduced(store, mailboxId,
                            Reduce(actionName, store.mailboxes[mailboxId], payload)))
       EXCEPT !.request = [actionName |-> actionName, mailboxId |-> mailboxId,
                           serviceId |-> serviceId, payload |-> payload]]
  /\ UNCHANGED <<serviceVars, fnVars>>

\* the mailboxes with the replacement left undone
CommittedMailboxes_NotReplaced(st) == st.mailboxes

\* the mailboxes once the new state replaced the prior state of its mailbox
CommittedMailboxes(st) ==
  [st.mailboxes EXCEPT ![st.accepted[Len(st.accepted)].mailboxId] =
                          st.accepted[Len(st.accepted)].newState]

\* step 5, first half: the store replaces the prior state
Commit ==
  /\ store.pc = "reduced"
  /\ store' = [store EXCEPT !.mailboxes = CommittedMailboxes(store),
                            !.pc = "committed",
                            !.notified = 0]
  /\ UNCHANGED <<serviceVars, fnVars>>

\* step 5, second half: the next subscriber is called with the state of the
\* store; after the last one the dispatch returns
Notify ==
  /\ store.pc = "committed"
  /\ store.notified < NumSubscribers
  /\ store' = [store EXCEPT
       !.logs[store.notified + 1] =
          Append(@, [dispatch |-> store.accepted[Len(store.accepted)].dispatch,
                     seen |-> store.mailboxes]),
       !.notified = @ + 1,
       !.pc = IF store.notified + 1 = NumSubscribers THEN "idle" ELSE "committed",
       !.outcome = IF store.notified + 1 = NumSubscribers THEN "committed" ELSE @]
  /\ UNCHANGED <<serviceVars, fnVars>>

InitStore ==
  /\ ServiceIdle
  /\ args = <<>>
  /\ result = <<>>
  /\ called = FALSE
  /\ store = InitialStore

NextStore ==
  \/ \E actionName \in ActionNames, mailboxId \in MailboxIds \cup {3},
        serviceId \in {0, 1, 2}, payload \in Payloads :
       Dispatch(actionName, mailboxId, serviceId, payload)
  \/ Commit
  \/ Notify

SpecStore == InitStore /\ [][NextStore]_vars

(***************************************************************************)
(* C13                                                                      *)
(***************************************************************************)
\* the mailboxes after the first k accepted dispatches were committed
RECURSIVE MailboxesAfter(_, _)
MailboxesAfter(accepted, k) ==
  IF k = 0 THEN InitialMailboxes
  ELSE [MailboxesAfter(accepted, k - 1) EXCEPT ![accepted[k].mailboxId] = accepted[k].newState]

\* C13: every subscriber is called once for each committed dispatch, in
\* dispatch order, and sees the mailboxes with exactly the dispatches up to
\* that one applied in full; a dispatch begins from the state the one before
\* it committed.
C13_NotifiedOncePerCommitInOrder ==
  store # <<>> =>
    /\ \A subscriber \in DOMAIN store.logs :
         \A log \in {store.logs[subscriber]} :
           /\ Len(log) <= Len(store.accepted)
           /\ Len(store.accepted) - Len(log) <= 1
           /\ store.pc = "idle" => Len(log) = Len(store.accepted)
           /\ store.pc = "reduced" => Len(log) = Len(store.accepted) - 1
           /\ \A i \in DOMAIN log :
                /\ log[i].dispatch = store.accepted[i].dispatch
                /\ log[i].seen = MailboxesAfter(store.accepted, i)
    /\ \A i \in DOMAIN store.accepted :
         \A j \in DOMAIN store.accepted :
           i < j => store.accepted[i].dispatch < store.accepted[j].dispatch
    /\ store.pc = "reduced" =>
         store.mailboxes = MailboxesAfter(store.accepted, Len(store.accepted) - 1)
    /\ store.pc # "reduced" =>
         store.mailboxes = MailboxesAfter(store.accepted, Len(store.accepted))

\* two dispatches were committed and every subscriber was told of both
C13_Witness ==
  /\ store # <<>>
  /\ store.pc = "idle"
  /\ Len(store.accepted) = 2
  /\ \A subscriber \in DOMAIN store.logs :
       /\ Len(store.logs[subscriber]) = 2
       /\ store.logs[subscriber][1].seen # store.logs[subscriber][2].seen

(***************************************************************************)
(* C14                                                                      *)
(***************************************************************************)
\* C14: the dispatch of an action that no reducer of the chain of its target
\* defines returns without an error and leaves the store as it was: no
\* mailbox or service state changes, nothing is committed, nobody notified.
C14_UnresolvedActionIsNoOp ==
  [][(/\ store # <<>>
      /\ store'.dispatched = store.dispatched + 1
      /\ store'.request.mailboxId \in DOMAIN store.mailboxes
      /\ store'.request.serviceId \in {0, 1}
      /\ \A chain \in {ReducerChain(store.mailboxes[store'.request.mailboxId].type,
                                    store.mailboxes[store'.request.mailboxId].serviceType,
                                    store'.request.serviceId)} :
           \A k \in DOMAIN chain : store'.request.actionName \notin Defines(chain[k]))
       => /\ store'.mailboxes = store.mailboxes
          /\ store'.outcome = "noop"
          /\ store'.pc = "idle"
          /\ store'.accepted = store.accepted
          /\ store'.logs = store.logs]_vars

\* after a committed dispatch, a Google-only action was dispatched to the
\* Slack mailbox: nothing changed
C14_Witness ==
  /\ store # <<>>
  /\ store.outcome = "noop"
  /\ store.request.actionName = "setProfileInfo"
  /\ store.request.mailboxId = 2
  /\ store.request.serviceId = 0
  /\ Len(store.accepted) = 1
  /\ store.mailboxes = MailboxesAfter(store.accepted, 1)
  /\ store.mailboxes # InitialMailboxes

(***************************************************************************)
(* C15                                                                      *)
(***************************************************************************)
\* C15 as claimed: the template built for a click neither starts nor ends
\* with a separator entry and has no two adjacent separator entries.
C15_NoLeadingTrailingOrAdjacentSeparator ==
  (called /\ result # <<>>) =>
    /\ ~IsSeparator(result[1])
    /\ ~IsSeparator(result[Len(result)])
    /\ \A i \in 1..(Len(result) - 1) :
         ~(IsSeparator(result[i]) /\ IsSeparator(result[i + 1]))

(***************************************************************************)
(* C16                                                                      *)
(***************************************************************************)
\* C16: the step that handles a creation event only queues a callback and
\* binds nothing; a callback that finds its surface destroyed, or its root
\* contents or browser window unresolved, attaches no listener and leaves
\* the bound set as it was; and a callback for a live, suitable surface that
\* is not in the bound set binds it once its window is resolved, whatever
\* callbacks ran for it before.
C16_BindingDeferredAndRetried ==
  [][/\ createEvents' # createEvents =>
          /\ privConnected' = privConnected
          /\ contextMenuListeners' = contextMenuListeners
          /\ destroyedListeners' = destroyedListeners
          /\ Len(immediates') = Len(immediates) + 1
     /\ \A resolution \in Resolutions :
          (/\ RunImmediate(resolution)
           /\ (isDestroyed[Head(immediates)] \/ resolution # "resolved")) =>
             /\ privConnected' = privConnected
             /\ contextMenuListeners' = contextMenuListeners
             /\ destroyedListeners' = destroyedListeners
     /\ (/\ RunImmediate("resolved")
         /\ ~isDestroyed[Head(immediates)]
         /\ Head(immediates) \notin privConnected
         /\ ~IsUnsuitableRoot(Head(immediates))) =>
           /\ privConnected' = privConnected \cup {Head(immediates)}
           /\ contextMenuListeners'[Head(immediates)] = 1]_vars

\* the callback of the first creation event of a live, suitable surface ran
\* without binding it, and the callback of a second creation event is queued
C16_Witness ==
  \E s \in Surfaces :
    /\ ~IsUnsuitableRoot(s)
    /\ ~isDestroyed[s]
    /\ createEvents[s] = 2
    /\ immediates = <<s>>
    /\ s \notin privConnected
    /\ contextMenuListeners[s] = 0

(***************************************************************************)
(* C17                                                                      *)
(***************************************************************************)
\* the surfaces the claim excludes: the root web contents of a WaveboxWindow
\* whose rootWebContentsHasContextMenu is false
RootWithoutContextMenu(s) ==
  \E window \in {WaveboxWindowOfRoot(RootWebContentsId(s))} :
    /\ window # <<>>
    /\ window.rootWebContentsId = s
    /\ ~window.rootWebContentsHasContextMenu

C18_TimersAreIndependent ==
  [][/\ contextMenuEvents' # contextMenuEvents =>
          \A m \in DOMAIN menus : menus'[m] = menus[m]
     /\ \A m \in DOMAIN menus :
          (menus[m].timer = "pending" /\ menus'[m].timer = "fired") =>
            /\ menus'[m].state = "TornDown"
            /\ menus[m].destroyed = 0
            /\ menus'[m].destroyed = 1
            /\ \A k \in DOMAIN menus \ {m} : menus'[k] = menus[k]
     /\ \A m \in DOMAIN menus' : menus'[m].destroyed <= 1
     /\ (\A m \in DOMAIN menus' : menus'[m].timer # "pending") =>
          \A m \in DOMAIN menus' :
            menus'[m].state = "TornDown" /\ menus'[m].destroyed = 1]_vars

\* a second menu was launched while the timer of the first was pending: both
\* are displayed, each with its own timer
C18_Witness ==
  /\ Len(menus) = 2
  /\ \A m \in DOMAIN menus :
       /\ menus[m].state = "Displaying"
       /\ menus[m].timer = "pending"
       /\ menus[m].destroyed = 0

(***************************************************************************)
(* C19                                                                      *)
(***************************************************************************)
\* C19 as claimed: a build begins only when no menu is displayed, so at most
\* one menu is displayed and not yet torn down at any time.
C19_OneMenuAtATime ==
  Cardinality({m \in DOMAIN menus : menus[m].state = "Displaying"}) <= 1

\* C19 as amended: every menu is built and displayed by the step of its
\* 'context-menu' event, whatever the state of the menus before it, goes from
\* Displaying to TornDown only, and is never displayed again.
C19_EachMenuDisplayedThenTornDown ==
  [][/\ \A m \in DOMAIN menus :
          /\ m \in DOMAIN menus'
          /\ menus'[m].state \in {menus[m].state, "TornDown"}
          /\ menus'[m].template = menus[m].template
     /\ \A m \in DOMAIN menus' \ DOMAIN menus :
          /\ contextMenuEvents' = contextMenuEvents + 1
          /\ menus'[m].state = "Displaying"
          /\ menus'[m].template # <<>>
     /\ \A m \in DOMAIN menus' : menus'[m].state \in {"Displaying", "TornDown"}]_vars

\* a menu was built and displayed while an earlier one, already clicked, was
\* still displayed
C19_Witness ==
  /\ Len(menus) = 2
  /\ menus[1].state = "Displaying"
  /\ menus[1].clicked
  /\ menus[2].state = "Displaying"
  /\ ~menus[2].clicked

(***************************************************************************)
(* C20                                                                      *)
(***************************************************************************)
\* C20 as claimed: the payload of an extension click has an editable field
\* equal to the isEditable flag of the click context.
C20_EditableIsTheEditabilityFlag ==
  (called /\ ~isDestroyed[args.contents]) =>
    /\ Len(result) = 1
    /\ "editable" \in DOMAIN result[1].clickParams
    /\ result[1].clickParams.editable = args.params.isEditable

(***************************************************************************)
(* C21                                                                      *)
(***************************************************************************)
\* C21: a menu built for a surface that is no recognized tab is built
\* without a query of the extension runtime and has no entry, at the top
\* level or in a submenu, whose click runs extensionOptionSelected, whatever
\* contributions the runtime holds.
C21_NoExtensionEntriesOffRecognizedTabs ==
  [][\A contents \in Surfaces, c \in ClickContexts :
       (/\ ~c.env.tabRecognized
        /\ c.env.runtimeContextMenuData # <<>>
        /\ ContextMenuEvent(contents, c.params, c.env, "resolved")) =>
          /\ runtimeQueries' = runtimeQueries
          /\ Len(menus') = Len(menus) + 1
          /\ \A click \in ClickClosures(menus'[Len(menus')].template) :
               click.call # "extensionOptionSelected"]_vars

\* the only menu so far was built for a click on a surface that is no
\* recognized tab: the runtime was not queried and the menu has no
\* extension entry
C21_Witness ==
  /\ Len(menus) = 1
  /\ contextMenuEvents = 1
  /\ menus[1].params = MisspelledWordClick.params
  /\ ~MisspelledWordClick.env.tabRecognized
  /\ MisspelledWordClick.env.runtimeContextMenuData # <<>>
  /\ runtimeQueries = 0
  /\ \A click \in ClickClosures(menus[1].template) :
       click.call # "extensionOptionSelected"

====
